---- MODULE Spec2Model ----
(***************************************************************************)
(* Model of src/sqrtprice.py: calculate_sqrt_price, the sqrtPriceX96       *)
(* encoder.  Python integers are arbitrary-precision and Python floats are *)
(* IEEE-754 binary64, so the model carries                                 *)
(*   - non-negative integers as little-endian sequences of limbs in base   *)
(*     2^15, without leading zero limbs (<< >> is 0), and                  *)
(*   - floats as records [neg, m, e] meaning m * 2^e with the sign bit     *)
(*     neg, m below 2^53 after every rounding.                             *)
(* The operators on limbs split their index range in halves, so that the   *)
(* evaluation depth stays logarithmic in the length of the numbers.        *)
(***************************************************************************)
EXTENDS Integers, Sequences, FiniteSets, TLC

(***************************************************************************)
(* Arbitrary-precision naturals (Python int).                              *)
(***************************************************************************)
LimbBits == 15
Base == 2^LimbBits

Zero == << >>

Min(x, y) == IF x < y THEN x ELSE y
Max(x, y) == IF x > y THEN x ELSE y

RECURSIVE BigNat(_)
BigNat(n) == IF n = 0 THEN << >> ELSE <<n % Base>> \o BigNat(n \div Base)

One == <<1>>

IsZero(a) == Len(a) = 0

Limb(a, i) == IF 1 <= i /\ i <= Len(a) THEN a[i] ELSE 0

\* the highest index in lo..hi holding a non-zero limb, 0 when there is none
RECURSIVE TopNonZero(_, _, _)
TopNonZero(a, lo, hi) ==
  IF lo > hi THEN 0
  ELSE IF lo = hi THEN (IF a[lo] # 0 THEN lo ELSE 0)
  ELSE LET h == TopNonZero(a, ((lo + hi) \div 2) + 1, hi)
       IN IF h # 0 THEN h ELSE TopNonZero(a, lo, (lo + hi) \div 2)

Norm(a) == SubSeq(a, 1, TopNonZero(a, 1, Len(a)))

RECURSIVE CmpRange(_, _, _, _)
CmpRange(a, b, lo, hi) ==
  IF lo > hi THEN 0
  ELSE IF lo = hi
  THEN (IF a[lo] < b[lo] THEN -1 ELSE IF a[lo] > b[lo] THEN 1 ELSE 0)
  ELSE LET h == CmpRange(a, b, ((lo + hi) \div 2) + 1, hi)
       IN IF h # 0 THEN h ELSE CmpRange(a, b, lo, (lo + hi) \div 2)

\* -1, 0 or 1 as a is below, equal to or above b
Cmp(a, b) ==
  IF Len(a) < Len(b) THEN -1
  ELSE IF Len(a) > Len(b) THEN 1
  ELSE CmpRange(a, b, 1, Len(a))

Leq(a, b) == Cmp(a, b) <= 0
Lt(a, b) == Cmp(a, b) < 0

\* one limb and the carry out of the sum s
LimbOf(s) == [d |-> <<s % Base>>, c |-> s \div Base]

\* the limbs r.d with the carry r.c on top
WithCarry(r) == IF r.c = 0 THEN r.d ELSE Append(r.d, r.c)

\* limbs lo..hi of a + b with carry c coming in: [d |-> limbs, c |-> carry out]
RECURSIVE AddRange(_, _, _, _, _)
AddRange(a, b, lo, hi, c) ==
  IF lo > hi THEN [d |-> << >>, c |-> c]
  ELSE IF lo = hi THEN LimbOf(Limb(a, lo) + Limb(b, lo) + c)
  ELSE LET l == AddRange(a, b, lo, (lo + hi) \div 2, c)
           h == AddRange(a, b, ((lo + hi) \div 2) + 1, hi, l.c)
       IN [d |-> l.d \o h.d, c |-> h.c]

Add(a, b) == WithCarry(AddRange(a, b, 1, Max(Len(a), Len(b)), 0))

\* one limb and the borrow out of the difference s
BorrowOf(s) == IF s < 0 THEN [d |-> <<s + Base>>, c |-> 1] ELSE [d |-> <<s>>, c |-> 0]

\* limbs lo..hi of a - b with borrow c coming in
RECURSIVE SubRange(_, _, _, _, _)
SubRange(a, b, lo, hi, c) ==
  IF lo > hi THEN [d |-> << >>, c |-> c]
  ELSE IF lo = hi THEN BorrowOf(a[lo] - Limb(b, lo) - c)
  ELSE LET l == SubRange(a, b, lo, (lo + hi) \div 2, c)
           h == SubRange(a, b, ((lo + hi) \div 2) + 1, hi, l.c)
       IN [d |-> l.d \o h.d, c |-> h.c]

\* a - b for a >= b
Sub(a, b) == Norm(SubRange(a, b, 1, Len(a), 0).d)

\* limbs lo..hi of a * k for a limb-sized k, with carry c coming in
RECURSIVE MulSmallRange(_, _, _, _, _)
MulSmallRange(a, k, lo, hi, c) ==
  IF lo > hi THEN [d |-> << >>, c |-> c]
  ELSE IF lo = hi THEN LimbOf(a[lo] * k + c)
  ELSE LET l == MulSmallRange(a, k, lo, (lo + hi) \div 2, c)
           h == MulSmallRange(a, k, ((lo + hi) \div 2) + 1, hi, l.c)
       IN [d |-> l.d \o h.d, c |-> h.c]

MulSmall(a, k) ==
  IF k = 0 \/ IsZero(a) THEN Zero
  ELSE WithCarry(MulSmallRange(a, k, 1, Len(a), 0))

\* a * Base^n
ShiftLimbs(a, n) == IF IsZero(a) THEN Zero ELSE [i \in 1..n |-> 0] \o a

\* a times limbs lo..hi of b
RECURSIVE MulRange(_, _, _, _)
MulRange(a, b, lo, hi) ==
  IF lo = hi THEN MulSmall(a, b[lo])
  ELSE Add(MulRange(a, b, lo, (lo + hi) \div 2),
           ShiftLimbs(MulRange(a, b, ((lo + hi) \div 2) + 1, hi),
                      ((lo + hi) \div 2) - lo + 1))

Mul(a, b) == IF IsZero(a) \/ IsZero(b) THEN Zero ELSE MulRange(a, b, 1, Len(b))

\* a * 2^s for s < LimbBits
ShlBits(a, s) ==
  Norm([i \in 1..(Len(a) + 1) |->
          ((Limb(a, i) * (2^s)) % Base) + (Limb(a, i - 1) \div (2^(LimbBits - s)))])

\* a * 2^n (Python's a << n)
Shl(a, n) == ShiftLimbs(ShlBits(a, n % LimbBits), n \div LimbBits)

\* floor(a / (Base^q * 2^s)) for s < LimbBits and q < Len(a)
ShrBits(a, q, s) ==
  Norm([i \in 1..(Len(a) - q) |->
          (Limb(a, i + q) \div (2^s))
          + ((Limb(a, i + q + 1) % (2^s)) * (2^(LimbBits - s)))])

\* floor(a / 2^n) (Python's a >> n)
Shr(a, n) ==
  IF n \div LimbBits >= Len(a) THEN Zero
  ELSE ShrBits(a, n \div LimbBits, n % LimbBits)

RECURSIVE SmallBits(_)
SmallBits(n) == IF n = 0 THEN 0 ELSE 1 + SmallBits(n \div 2)

\* int.bit_length()
BitLen(a) == IF IsZero(a) THEN 0 ELSE LimbBits * (Len(a) - 1) + SmallBits(a[Len(a)])

\* bit n of a (bit 0 is the lowest)
Bit(a, n) == (Limb(a, (n \div LimbBits) + 1) \div (2^(n % LimbBits))) % 2

\* a mod 2^n = 0
LowBitsZero(a, n) ==
  /\ \A i \in 1..(n \div LimbBits) : Limb(a, i) = 0
  /\ Limb(a, (n \div LimbBits) + 1) % (2^(n % LimbBits)) = 0

Square(a) == Mul(a, a)

\* Python's int ** int for a limb-sized base
RECURSIVE Pow(_, _)
Pow(b, n) ==
  IF n = 0 THEN One
  ELSE MulSmall(Square(Pow(b, n \div 2)), IF n % 2 = 0 THEN 1 ELSE b)

(***************************************************************************)
(* Long division (Knuth, TAOCP 4.3.1, algorithm D) by b whose top limb is  *)
(* Base/2 or more: one quotient limb at a time, for rem < b * Base^(lo+1). *)
(***************************************************************************)

\* the quotient limb estimated from the two top limbs of rem and the top limb of
\* b: it is the limb, or exceeds it by at most 2
Estimate(rem, b, lo) ==
  Min(Base - 1,
      (Limb(rem, Len(b) + lo + 1) * Base + Limb(rem, Len(b) + lo)) \div b[Len(b)])

\* the quotient limb of rem by bs, given its estimate
QuotientLimb(rem, bs, est) ==
  IF Leq(MulSmall(bs, est), rem) THEN est
  ELSE IF Leq(MulSmall(bs, est - 1), rem) THEN est - 1
  ELSE est - 2

TakeLimb(rem, bs, d, lo) ==
  [q |-> ShiftLimbs(BigNat(d), lo), r |-> Sub(rem, MulSmall(bs, d))]

DivStep(rem, b, bs, lo) == TakeLimb(rem, bs, QuotientLimb(rem, bs, Estimate(rem, b, lo)), lo)

\* quotient limbs hi down to lo: [q |-> the limbs found, r |-> what is left of rem]
RECURSIVE DivLimbs(_, _, _, _)
DivLimbs(rem, b, hi, lo) ==
  IF hi < lo THEN [q |-> Zero, r |-> rem]
  ELSE IF hi = lo THEN DivStep(rem, b, ShiftLimbs(b, lo), lo)
  ELSE LET h == DivLimbs(rem, b, hi, ((lo + hi) \div 2) + 1)
           l == DivLimbs(h.r, b, (lo + hi) \div 2, lo)
       IN [q |-> Add(h.q, l.q), r |-> l.r]

Unshift(d, s) == [q |-> d.q, r |-> Shr(d.r, s)]

DivNormalized(an, bn, s) == Unshift(DivLimbs(an, bn, Len(an) - Len(bn), 0), s)

DivShifted(a, b, s) == DivNormalized(Shl(a, s), Shl(b, s), s)

\* divmod(a, b) for b > 0: [q |-> a // b, r |-> a % b]
DivMod(a, b) == DivShifted(a, b, LimbBits - SmallBits(b[Len(b)]))

\* Newton's iteration for the integer square root, from x >= floor(sqrt(a))
RECURSIVE IsqrtNewton(_, _)
NewtonNext(a, x, y) == IF Lt(y, x) THEN IsqrtNewton(a, y) ELSE x
IsqrtNewton(a, x) == NewtonNext(a, x, Shr(Add(x, DivMod(a, x).q), 1))

WithRemainder(a, x) == [q |-> x, r |-> Sub(a, Square(x))]

\* [q |-> floor(sqrt(a)), r |-> a - q^2]
Isqrt(a) ==
  IF IsZero(a) THEN [q |-> Zero, r |-> Zero]
  ELSE WithRemainder(a, IsqrtNewton(a, Shl(One, (BitLen(a) + 1) \div 2)))

(***************************************************************************)
(* IEEE-754 binary64 (Python float).  A float is [neg, m, e]: m * 2^e with *)
(* the sign bit neg.  A record that is 2^DBL_MAX_EXP or more stands for    *)
(* the infinity of that sign.                                              *)
(***************************************************************************)
DBL_MANT_DIG == 53
DBL_MAX_EXP == 1024
DBL_MIN_EXP == -1021

FloatZero == [neg |-> FALSE, m |-> Zero, e |-> 0]

\* round to nearest, ties to even: the bits under bit `extra` are more than half,
\* or exactly half with bit `extra` set
RoundsUp(m, inexact, extra) ==
  /\ Bit(m, extra - 1) = 1
  /\ (inexact \/ ~LowBitsZero(m, extra - 1) \/ Bit(m, extra) = 1)

RoundAt(m, e, inexact, extra) ==
  IF extra <= 0 THEN [neg |-> FALSE, m |-> m, e |-> e]
  ELSE [neg |-> FALSE,
        m |-> IF RoundsUp(m, inexact, extra) THEN Add(Shr(m, extra), One)
                                             ELSE Shr(m, extra),
        e |-> e + extra]

\* m * 2^e, with `inexact` telling that the true value lies strictly above it and
\* below (m + 1) * 2^e, rounded to the nearest float, ties to even; results under
\* 2^(DBL_MIN_EXP - 1) keep the fixed spacing 2^(DBL_MIN_EXP - DBL_MANT_DIG) of the
\* subnormals
RoundHalfEven(m, e, inexact) ==
  RoundAt(m, e, inexact, Max(BitLen(m), DBL_MIN_EXP - e) - DBL_MANT_DIG)

\* the float is 2^DBL_MAX_EXP or more in magnitude
\* the overflow test with the bound off by one: floats of 2^1023 and more are refused
TooLargeInclusive(f) == BitLen(f.m) + f.e >= DBL_MAX_EXP

TooLarge(f) == BitLen(f.m) + f.e > DBL_MAX_EXP

InFloatRange(f) ==
  IF TooLarge(f) THEN [raises |-> "OverflowError"] ELSE [raises |-> "", value |-> f]

RoundQuotient(qr, shift, lost) ==
  InFloatRange(RoundHalfEven(qr.q, shift, lost \/ ~IsZero(qr.r)))

\* a / b from the quotient of a * 2^-shift by b, which has DBL_MANT_DIG + 2 bits or
\* one more (fewer for a subnormal result)
TrueDivideShifted(a, b, shift) ==
  RoundQuotient(DivMod(IF shift <= 0 THEN Shl(a, -shift) ELSE Shr(a, shift), b),
                shift, shift > 0 /\ ~LowBitsZero(a, shift))

\* a / b for a, b > 0 with diff = a.bit_length() - b.bit_length()
TrueDivideBits(a, b, diff) ==
  IF diff > DBL_MAX_EXP THEN [raises |-> "OverflowError"]
  ELSE IF diff < DBL_MIN_EXP - DBL_MANT_DIG - 1 THEN [raises |-> "", value |-> FloatZero]
  ELSE TrueDivideShifted(a, b, Max(diff, DBL_MIN_EXP) - DBL_MANT_DIG - 2)

\* int / int for non-negative ints: the correctly rounded quotient, or the
\* exception Python raises
TrueDivide(a, b) ==
  IF IsZero(b) THEN [raises |-> "ZeroDivisionError"]
  ELSE IF IsZero(a) THEN [raises |-> "", value |-> FloatZero]
  ELSE TrueDivideBits(a, b, BitLen(a) - BitLen(b))

\* k0 or k0 - 1, whichever leaves e - k even
EvenShift(e, k0) == IF (e - k0) % 2 = 0 THEN k0 ELSE k0 - 1

SqrtRound(root, e) ==
  [raises |-> "", value |-> RoundHalfEven(root.q, e, ~IsZero(root.r))]

\* sqrt(f) from the integer square root of f.m * 2^k, which has DBL_MANT_DIG + 1 bits
SqrtShifted(f, k) == SqrtRound(Isqrt(Shl(f.m, k)), (f.e - k) \div 2)

\* math.sqrt: the correctly rounded square root, ValueError below zero
MathSqrt(f) ==
  IF IsZero(f.m) THEN [raises |-> "", value |-> f]
  ELSE IF f.neg THEN [raises |-> "ValueError"]
  ELSE SqrtShifted(f, EvenShift(f.e, 2 * DBL_MANT_DIG + 2 - BitLen(f.m)))

\* float(n) for an int n >= 0
IntToFloat(n) == RoundHalfEven(n, 0, FALSE)

\* float * float, the product out of the subnormal range
FloatMul(f, g) ==
  [RoundHalfEven(Mul(f.m, g.m), f.e + g.e, FALSE) EXCEPT !.neg = (f.neg # g.neg)]

\* the signed integer of sign bit neg and magnitude mag
Signed(neg, mag) == [neg |-> neg /\ ~IsZero(mag), mag |-> mag]

\* int(f): truncation towards zero, as a signed integer [neg, mag];
\* OverflowError for an infinity
FloatToInt(f) ==
  IF TooLarge(f) THEN [raises |-> "OverflowError"]
  ELSE [raises |-> "",
        value |-> Signed(f.neg, IF f.e >= 0 THEN Shl(f.m, f.e) ELSE Shr(f.m, -f.e))]

(***************************************************************************)
(* calculate_sqrt_price, line by line.                                     *)
(***************************************************************************)

\* token_reserve * (10 ** token_decimals)
Normalize(reserve, decimals) == Mul(reserve, Pow(10, decimals))

\* token1_amount // token0_amount: floor division in place of true division
PriceRatioFloorDiv(amount1, amount0) ==
  IF IsZero(amount0)
  THEN [raises |-> "ZeroDivisionError"]
  ELSE InFloatRange(IntToFloat(DivMod(amount1, amount0).q))

\* a guard that answers 0.0 for an empty token0 reserve instead of dividing
PriceRatioGuarded(amount1, amount0) ==
  IF IsZero(amount0)
  THEN [raises |-> "", value |-> FloatZero]
  ELSE TrueDivide(amount1, amount0)

\* token0_amount / token1_amount: the operands exchanged
PriceRatioInverted(amount1, amount0) == TrueDivide(amount0, amount1)

\* token1_amount / token0_amount
PriceRatio(amount1, amount0) == TrueDivide(amount1, amount0)

\* int(sqrt_price * (2 * 96)): the power written as a product
SqrtPriceX96Times(sqrt) == FloatToInt(FloatMul(sqrt, IntToFloat(BigNat(2 * 96))))

\* int(sqrt_price * (2 ** 95)): the exponent off by one
SqrtPriceX96Short(sqrt) == FloatToInt(FloatMul(sqrt, IntToFloat(Pow(2, 95))))

\* n - 1 for the signed integer a conversion gave
Decrement(r) ==
  IF r.raises # "" THEN r
  ELSE [raises |-> "",
        value |-> IF IsZero(r.value.mag) THEN [neg |-> TRUE, mag |-> One]
                  ELSE [neg |-> FALSE, mag |-> Sub(r.value.mag, One)]]

\* int(sqrt_price * (2 ** 96)) - 1: truncation taken for rounding up and undone
SqrtPriceX96MinusOne(sqrt) ==
  Decrement(FloatToInt(FloatMul(sqrt, IntToFloat(Pow(2, 96)))))

\* int(sqrt_price * (2 ** 96))
SqrtPriceX96(sqrt) == FloatToInt(FloatMul(sqrt, IntToFloat(Pow(2, 96))))

\* the whole call: [raises |-> the exception's name, or ""; value |-> what it returns]
FromSqrt(sqrt) == IF sqrt.raises # "" THEN sqrt ELSE SqrtPriceX96(sqrt.value)

FromRatio(ratio) == IF ratio.raises # "" THEN ratio ELSE FromSqrt(MathSqrt(ratio.value))

calculate_sqrt_price(reserve0, reserve1, decimals0, decimals1) ==
  FromRatio(PriceRatio(Normalize(reserve1, decimals1), Normalize(reserve0, decimals0)))

(***************************************************************************)
(* The inputs of the calls the model makes.                                *)
(***************************************************************************)

\* the example usage's tokens
usdc_reserve == BigNat(6300000)
eth_reserve == MulSmall(Pow(10, 17), 1)
dca_reserve == MulSmall(Pow(10, 17), 4736)
usdc_decimals == 6
eth_decimals == 18
dca_decimals == 18

MaxReserve == 3
MaxDecimals == 1
MaxDelta == 1

Tokens == {<<usdc_reserve, usdc_decimals>>, <<eth_reserve, eth_decimals>>,
           <<dca_reserve, dca_decimals>>}

\* decimals that carry the quotient to the ends of the float range
ExtremeDecimals == {0, 308, 330}

\* the least integer whose quotient by 1 rounds to 2^DBL_MAX_EXP: 2^1024 - 2^970
FloatLimit == Sub(Shl(One, DBL_MAX_EXP), Shl(One, DBL_MAX_EXP - DBL_MANT_DIG - 1))

\* <<token0_reserve, token1_reserve, token0_decimals, token1_decimals>>
SmallInputs ==
  {<<BigNat(r0), BigNat(r1), d0, d1>> :
     r0 \in 0..MaxReserve, r1 \in 0..MaxReserve,
     d0 \in 0..MaxDecimals, d1 \in 0..MaxDecimals}

\* the example's tokens against each other, reserves raised by up to MaxDelta units
ExampleInputs ==
  UNION {{<<Add(t0[1], BigNat(n0)), Add(t1[1], BigNat(n1)), t0[2], t1[2]>> :
            n0 \in 0..MaxDelta, n1 \in 0..MaxDelta} : t0 \in Tokens, t1 \in Tokens}

ExtremeInputs ==
  {<<BigNat(r0), BigNat(r1), d0, d1>> :
     r0 \in {0, 1, 3}, r1 \in {0, 1, 3},
     d0 \in ExtremeDecimals, d1 \in ExtremeDecimals}

\* quotients at the very end of the float range
LimitInputs ==
  {<<One, FloatLimit, 0, 0>>, <<One, Sub(FloatLimit, One), 0, 0>>,
   <<FloatLimit, One, 0, 0>>, <<FloatLimit, FloatLimit, 0, 0>>}

Inputs == SmallInputs \cup ExampleInputs \cup ExtremeInputs \cup LimitInputs

(***************************************************************************)
(* One call as a state machine: pc is the line about to run.               *)
(***************************************************************************)
VARIABLES token0_reserve, token1_reserve, token0_decimals, token1_decimals,
          token0_amount, token1_amount, price_ratio, sqrt_price, sqrt_price_x96,
          pc, returned, raised

vars == <<token0_reserve, token1_reserve, token0_decimals, token1_decimals,
          token0_amount, token1_amount, price_ratio, sqrt_price, sqrt_price_x96,
          pc, returned, raised>>

args == <<token0_reserve, token1_reserve, token0_decimals, token1_decimals>>

\* a local not yet bound
Unbound == <<-1>>

Init ==
  /\ \E t \in Inputs :
       /\ token0_reserve = t[1]
       /\ token1_reserve = t[2]
       /\ token0_decimals = t[3]
       /\ token1_decimals = t[4]
  /\ token0_amount = Unbound
  /\ token1_amount = Unbound
  /\ price_ratio = Unbound
  /\ sqrt_price = Unbound
  /\ sqrt_price_x96 = Unbound
  /\ returned = Unbound
  /\ raised = ""
  /\ pc = "line5"

Line5 ==
  /\ pc = "line5"
  /\ token0_amount' = Normalize(token0_reserve, token0_decimals)
  /\ pc' = "line6"
  /\ UNCHANGED <<args, token1_amount, price_ratio, sqrt_price, sqrt_price_x96,
                 returned, raised>>

Line6 ==
  /\ pc = "line6"
  /\ token1_amount' = Normalize(token1_reserve, token1_decimals)
  /\ pc' = "line9"
  /\ UNCHANGED <<args, token0_amount, price_ratio, sqrt_price, sqrt_price_x96,
                 returned, raised>>

\* bind price_ratio to what line 9 computes, or raise its exception
Bind9(r) ==
  IF r.raises # ""
  THEN /\ raised' = r.raises
       /\ pc' = "raised"
       /\ UNCHANGED price_ratio
  ELSE /\ price_ratio' = r.value
       /\ pc' = "line12"
       /\ UNCHANGED raised

Line9 ==
  /\ pc = "line9"
  /\ Bind9(PriceRatio(token1_amount, token0_amount))
  /\ UNCHANGED <<args, token0_amount, token1_amount, sqrt_price, sqrt_price_x96,
                 returned>>

\* bind sqrt_price to what line 12 computes, or raise its exception
Bind12(r) ==
  IF r.raises # ""
  THEN /\ raised' = r.raises
       /\ pc' = "raised"
       /\ UNCHANGED sqrt_price
  ELSE /\ sqrt_price' = r.value
       /\ pc' = "line15"
       /\ UNCHANGED raised

Line12 ==
  /\ pc = "line12"
  /\ Bind12(MathSqrt(price_ratio))
  /\ UNCHANGED <<args, token0_amount, token1_amount, price_ratio, sqrt_price_x96,
                 returned>>

\* bind sqrt_price_x96 to what line 15 computes, or raise its exception
Bind15(r) ==
  IF r.raises # ""
  THEN /\ raised' = r.raises
       /\ pc' = "raised"
       /\ UNCHANGED sqrt_price_x96
  ELSE /\ sqrt_price_x96' = r.value
       /\ pc' = "line17"
       /\ UNCHANGED raised

Line15 ==
  /\ pc = "line15"
  /\ Bind15(SqrtPriceX96(sqrt_price))
  /\ UNCHANGED <<args, token0_amount, token1_amount, price_ratio, sqrt_price,
                 returned>>

Line17 ==
  /\ pc = "line17"
  /\ returned' = sqrt_price_x96
  /\ pc' = "returned"
  /\ UNCHANGED <<args, token0_amount, token1_amount, price_ratio, sqrt_price,
                 sqrt_price_x96, raised>>

Next == Line5 \/ Line6 \/ Line9 \/ Line12 \/ Line15 \/ Line17

Spec == Init /\ [][Next]_vars

(***************************************************************************)
(* Exact arithmetic the properties are stated in.                          *)
(***************************************************************************)
amount0 == Normalize(token0_reserve, token0_decimals)
amount1 == Normalize(token1_reserve, token1_decimals)

Pow2(n) == Shl(One, n)

Terminated == pc \in {"returned", "raised"}

\* how the call ended, in the shape calculate_sqrt_price gives
Outcome == IF pc = "returned" THEN [raises |-> "", value |-> returned]
                              ELSE [raises |-> raised]

\* s = floor(sqrt(num / den) * 2^96)
IsFloorSqrtX96(s, num, den) ==
  /\ Leq(Mul(Square(s), den), Mul(num, Pow2(192)))
  /\ Lt(Mul(num, Pow2(192)), Mul(Square(Add(s, One)), den))

\* s <= X * (1 + 2^-52) and s + 1 > X * (1 - 2^-52) for X = sqrt(num / den) * 2^96
IsNearSqrtX96(s, num, den) ==
  /\ Leq(Mul(Square(s), den),
         Mul(Square(Add(Pow2(52), One)), Mul(num, Pow2(88))))
  /\ Lt(Mul(Square(Sub(Pow2(52), One)), Mul(num, Pow2(88))),
        Mul(Square(Add(s, One)), den))

(***************************************************************************)
(* C1.  The call returns floor(sqrt(amount1 / amount0) * 2^96).            *)
(***************************************************************************)

\* C1 as claimed: whenever the call returns, the returned s is the exact floor:
\* s^2 * amount0 <= amount1 * 2^192 < (s + 1)^2 * amount0.
C1_ExactFloor ==
  pc = "returned" =>
    /\ ~returned.neg
    /\ IsFloorSqrtX96(returned.mag, amount1, amount0)

\* C1 amended: whenever the call returns, the returned s is within a relative
\* error of 2^-52 of X = sqrt(amount1 / amount0) * 2^96, truncated:
\* s <= X * (1 + 2^-52) and s + 1 > X * (1 - 2^-52).
C1_NearFloor ==
  pc = "returned" =>
    /\ ~returned.neg
    /\ IsNearSqrtX96(returned.mag, amount1, amount0)

\* a returned result that is not the exact floor, for the example's reserves
C1_Witness ==
  /\ pc = "returned"
  /\ token0_reserve = usdc_reserve
  /\ token1_reserve = dca_reserve
  /\ ~IsFloorSqrtX96(returned.mag, amount1, amount0)

(***************************************************************************)
(* C2.  reserve0 = 0 raises ZeroDivisionError and returns nothing.         *)
(***************************************************************************)

\* C2: with token0_reserve = 0, whatever the other arguments, the call never gets
\* past line 9: it ends raising ZeroDivisionError, and neither the ratio, the
\* root, the result nor a return value is ever bound.
C2_ZeroReserve0Raises ==
  IsZero(token0_reserve) =>
    /\ pc \in {"line5", "line6", "line9", "raised"}
    /\ pc = "raised" => raised = "ZeroDivisionError"
    /\ price_ratio = Unbound /\ sqrt_price = Unbound
    /\ sqrt_price_x96 = Unbound /\ returned = Unbound

C2_Witness ==
  /\ pc = "raised"
  /\ IsZero(token0_reserve)
  /\ ~IsZero(token1_reserve)
  /\ token0_decimals > 0
  /\ raised = "ZeroDivisionError"

(***************************************************************************)
(* C3.  Normalization invariance.                                          *)
(***************************************************************************)
MaxScale == 2

\* C3: whenever the call returns, the call with either token's reserve multiplied
\* by 10^k and that token's decimals raised by k returns the same value, for
\* every k in 1..MaxScale.
C3_NormalizationInvariance ==
  (pc = "returned" /\ ~IsZero(token0_reserve)) =>
    \A k \in 1..MaxScale :
      /\ calculate_sqrt_price(Mul(token0_reserve, Pow(10, k)), token1_reserve,
                              token0_decimals + k, token1_decimals) = Outcome
      /\ calculate_sqrt_price(token0_reserve, Mul(token1_reserve, Pow(10, k)),
                              token0_decimals, token1_decimals + k) = Outcome

(***************************************************************************)
(* C4.  The USDC/DCA example call.                                         *)
(***************************************************************************)
IsExampleCall ==
  /\ token0_reserve = usdc_reserve /\ token0_decimals = usdc_decimals
  /\ token1_reserve = dca_reserve /\ token1_decimals = dca_decimals

\* C4: the example call (6300000, 473.6 * 10^18, 6, 18) normalizes the amounts to
\* 6.3 and 473.6 (10 * amount0 = 63, 10 * amount1 = 4736) and returns
\* floor(sqrt(4736 / 63) * 2^96).
C4_ExampleResult ==
  (IsExampleCall /\ pc = "returned") =>
    /\ MulSmall(token0_amount, 10) = BigNat(63)
    /\ MulSmall(token1_amount, 10) = BigNat(4736)
    /\ IsFloorSqrtX96(returned.mag, BigNat(4736), BigNat(63))

\* what the code does there: the amounts are 6.3 * 10^12 and 473.6 * 10^36
C4_ExampleAsCoded ==
  (IsExampleCall /\ pc = "returned") =>
    /\ token0_amount = MulSmall(Pow(10, 11), 63)
    /\ token1_amount = MulSmall(Pow(10, 35), 4736)
    /\ IsNearSqrtX96(returned.mag, MulSmall(Pow(10, 24), 4736), BigNat(63))

(***************************************************************************)
(* C5.  Identity case.                                                     *)
(***************************************************************************)

\* C5: with reserve0 = reserve1 > 0 and decimals0 = decimals1 the call ends by
\* returning exactly 2^96.
C5_Identity ==
  (/\ Terminated
   /\ token0_reserve = token1_reserve
   /\ ~IsZero(token0_reserve)
   /\ token0_decimals = token1_decimals) =>
    /\ pc = "returned"
    /\ returned = [neg |-> FALSE, mag |-> Pow2(96)]

C5_Witness ==
  /\ pc = "returned"
  /\ token0_reserve = dca_reserve /\ token1_reserve = dca_reserve
  /\ token0_decimals = dca_decimals /\ token1_decimals = dca_decimals
  /\ returned.mag = Pow2(96)

(***************************************************************************)
(* C6.  Zero numerator.                                                    *)
(***************************************************************************)

\* C6: with reserve1 = 0 and reserve0 > 0 the call ends by returning exactly 0,
\* whatever the decimals.
C6_ZeroReserve1 ==
  (Terminated /\ IsZero(token1_reserve) /\ ~IsZero(token0_reserve)) =>
    /\ pc = "returned"
    /\ returned = [neg |-> FALSE, mag |-> Zero]

C6_Witness ==
  /\ pc = "returned"
  /\ IsZero(token1_reserve)
  /\ ~IsZero(token0_reserve)
  /\ token1_decimals > 0
  /\ IsZero(returned.mag)

(***************************************************************************)
(* C7.  Failure modes.                                                     *)
(***************************************************************************)

\* amount1 / amount0 rounds to 2^DBL_MAX_EXP or more
QuotientOverflows == ~IsZero(amount0) /\ Leq(Mul(FloatLimit, amount0), amount1)

\* C7 as claimed: the call fails if and only if reserve0 = 0.
C7_OnlyZeroDivision ==
  Terminated => (pc = "raised" <=> IsZero(token0_reserve))

\* C7 amended: the call fails if and only if reserve0 = 0 (ZeroDivisionError) or
\* amount1 / amount0 rounds to a float of 2^1024 or more, that is
\* amount1 >= (2^1024 - 2^970) * amount0 (OverflowError); every other call
\* returns an integer, and math.sqrt never raises.
C7_FailureModes ==
  Terminated =>
    /\ pc = "raised" <=> (IsZero(token0_reserve) \/ QuotientOverflows)
    /\ pc = "raised" =>
         raised = IF IsZero(token0_reserve) THEN "ZeroDivisionError" ELSE "OverflowError"
    /\ pc = "returned" => returned.mag \in Seq(0..(Base - 1))

C7_Witness ==
  /\ pc = "raised"
  /\ raised = "OverflowError"
  /\ ~IsZero(token0_reserve)
  /\ token1_reserve = BigNat(3)
  /\ QuotientOverflows

(***************************************************************************)
(* C8.  The result is not negative.                                        *)
(***************************************************************************)

\* C8: whenever the call returns, the returned integer is not negative.
C8_NonNegative == pc = "returned" => ~returned.neg

C8_Witness ==
  /\ pc = "returned"
  /\ ~IsZero(token0_reserve)
  /\ IsZero(returned.mag)
  /\ ~returned.neg

(***************************************************************************)
(* C9.  The result is an order-preserving function of amount1 / amount0.   *)
(***************************************************************************)

\* the ratio amount1 / amount0 of the finished call against that of the call
\* with arguments u: -1 when it is smaller, 0 when equal, 1 when larger
CmpRatio(u) ==
  Cmp(Mul(token1_amount, Normalize(u[1], u[3])),
      Mul(Normalize(u[2], u[4]), token0_amount))

\* the calls the finished call is compared with: a step up in each argument, the
\* same ratio written three other ways, and the two example calls
Probes ==
  { <<Add(token0_reserve, One), token1_reserve, token0_decimals, token1_decimals>>,
    <<token0_reserve, Add(token1_reserve, One), token0_decimals, token1_decimals>>,
    <<token0_reserve, token1_reserve, token0_decimals + 1, token1_decimals>>,
    <<token0_reserve, token1_reserve, token0_decimals, token1_decimals + 1>>,
    <<MulSmall(token0_reserve, 10), MulSmall(token1_reserve, 10),
      token0_decimals, token1_decimals>>,
    <<token0_reserve, token1_reserve, token0_decimals + 1, token1_decimals + 1>>,
    <<MulSmall(token0_reserve, 10), token1_reserve, token0_decimals, token1_decimals + 1>>,
    <<usdc_reserve, dca_reserve, usdc_decimals, dca_decimals>>,
    <<eth_reserve, dca_reserve, eth_decimals, dca_decimals>> }

OrderPreserved(order, other) ==
  other.raises = "" =>
    /\ order <= 0 => Leq(returned.mag, other.value.mag)
    /\ order >= 0 => Leq(other.value.mag, returned.mag)

\* C9: whenever the call returns and a call with other arguments (reserve0 > 0)
\* returns too, the results are ordered as the ratios amount1 / amount0 are: a
\* ratio that is not larger gives a result that is not larger, so equal ratios
\* give equal results, a larger reserve1 never a smaller result and a larger
\* reserve0 never a larger one.
C9_OrderPreserving ==
  pc = "returned" =>
    \A u \in Probes :
      OrderPreserved(CmpRatio(u), calculate_sqrt_price(u[1], u[2], u[3], u[4]))

C9_Witness ==
  /\ pc = "returned"
  /\ token0_decimals > 0
  /\ ~IsZero(returned.mag)
  /\ calculate_sqrt_price(MulSmall(token0_reserve, 10), token1_reserve,
                          token0_decimals, token1_decimals + 1) = Outcome
  /\ Lt(returned.mag,
        calculate_sqrt_price(token0_reserve, Add(token1_reserve, One),
                             token0_decimals, token1_decimals).value.mag)
  /\ Lt(calculate_sqrt_price(Add(token0_reserve, One), token1_reserve,
                             token0_decimals, token1_decimals).value.mag,
        returned.mag)

(***************************************************************************)
(* C10.  Exchanging the tokens gives the reciprocal price.                 *)
(***************************************************************************)

\* the call with the two tokens exchanged
Swapped ==
  calculate_sqrt_price(token1_reserve, token0_reserve, token1_decimals, token0_decimals)

BothReturn ==
  /\ pc = "returned"
  /\ ~IsZero(token0_reserve)
  /\ ~IsZero(token1_reserve)
  /\ Swapped.raises = ""

\* s * t <= 2^192 < (s + 1) * (t + 1)
IsReciprocalX96(s, t) ==
  /\ Leq(Mul(s, t), Pow2(192))
  /\ Lt(Pow2(192), Mul(Add(s, One), Add(t, One)))

\* s * t <= 2^192 * (1 + 2^-52)^2 and (s + 1) * (t + 1) > 2^192 * (1 - 2^-52)^2
IsNearReciprocalX96(s, t) ==
  /\ Leq(Mul(s, t), Mul(Square(Add(Pow2(52), One)), Pow2(88)))
  /\ Lt(Mul(Square(Sub(Pow2(52), One)), Pow2(88)), Mul(Add(s, One), Add(t, One)))

\* C10 as claimed: with both reserves positive, the result s and the result t of
\* the call with the tokens exchanged satisfy s * t <= 2^192 < (s + 1) * (t + 1).
C10_ExactReciprocal ==
  BothReturn => IsReciprocalX96(returned.mag, Swapped.value.mag)

\* C10 amended: with both reserves positive and both calls returning, the two
\* results are reciprocal to within the rounding of the two floating-point
\* steps: s * t <= 2^192 * (1 + 2^-52)^2 and (s + 1) * (t + 1) > 2^192 * (1 - 2^-52)^2.
C10_NearReciprocal ==
  BothReturn => IsNearReciprocalX96(returned.mag, Swapped.value.mag)

C10_Witness ==
  /\ BothReturn
  /\ token0_reserve # token1_reserve
  /\ ~IsReciprocalX96(returned.mag, Swapped.value.mag)
  /\ IsNearReciprocalX96(returned.mag, Swapped.value.mag)

====
